---- MODULE Spec2Model ----
(***************************************************************************)
(* RIIMTools device data: extraction of a calibration table from a raw     *)
(* device-properties record (get_device_props) and the two read-side       *)
(* accessors get_cx_connected_qubits and get_cx_error_rate.                *)
(*                                                                         *)
(* Strings are sequences of one-character strings, so that str(), find()   *)
(* and split() are computed rather than assumed.  Python lists are         *)
(* sequences; the Python index i is the TLA+ index i + 1.                   *)
(***************************************************************************)
EXTENDS Integers, Sequences, FiniteSets, TLC

VARIABLES props_qubits, props_gates, pc, dict_props_qubit, dict_update_date,
          list_u2_gates, list_cx_gates, output_data, df, err, call, result

vars == <<props_qubits, props_gates, pc, dict_props_qubit, dict_update_date,
          list_u2_gates, list_cx_gates, output_data, df, err, call, result>>

(* ------------------------------ bounds -------------------------------- *)

\* Largest number of qubits of a raw record.
MaxQubits == 3

\* Largest number of gates of a raw record.
MaxGates == 3

(* --------------------------- string helpers --------------------------- *)

Digits == <<"0", "1", "2", "3", "4", "5", "6", "7", "8", "9">>

\* Python str(n) of a non-negative integer.
RECURSIVE str(_)
str(n) ==
  IF n < 10 THEN <<Digits[n + 1]>>
  ELSE str(n \div 10) \o <<Digits[(n % 10) + 1]>>

\* Python s.find(sub): the lowest index where sub occurs in s, or -1.
find(s, sub) ==
  LET Hits == {i \in 0..(Len(s) - Len(sub)) :
                 SubSeq(s, i + 1, i + Len(sub)) = sub}
  IN IF Hits = {} THEN -1
     ELSE CHOOSE i \in Hits : \A j \in Hits : i <= j

\* Python s.split(sep) for a one-character separator.
RECURSIVE split(_, _)
split(s, sep) ==
  LET Seps == {i \in 1..Len(s) : s[i] = sep}
  IN IF Seps = {} THEN <<s>>
     ELSE LET i == CHOOSE k \in Seps : \A j \in Seps : k <= j
          IN <<SubSeq(s, 1, i - 1)>> \o split(SubSeq(s, i + 1, Len(s)), sep)

(* --------------------------- the raw record --------------------------- *)

\* The measurement slots that are read (Python indices) and their columns.
dict_props_device_qubit ==
  (0 :> "T1") @@ (1 :> "T2") @@ (2 :> "Frequency") @@ (4 :> "Readout")

\* The value of measurement slot i of qubit q in the raw record.
Measurement(q, i) == 10 * q + i

\* props_dict['qubits'] of a device with n qubits: five slots per qubit.
RawQubits(n) == [q \in 1..n |-> [i \in 1..5 |-> Measurement(q - 1, i - 1)]]

\* full_properties.last_update_date
last_update_date == "date"

\* A single-qubit calibration gate, e.g. u2_0.
U2Gate(qb, e) ==
  [name |-> <<"u", "2", "_">> \o str(qb), qubits |-> <<qb>>, value |-> e]

\* A gate of another kind, e.g. u3_0.
U3Gate(qb, e) ==
  [name |-> <<"u", "3", "_">> \o str(qb), qubits |-> <<qb>>, value |-> e]

\* The error value of the gate at Python index g of the gate list.  The code
\* only copies error values, so every gate of a record carries its own.
ErrorAt(g) == g + 1

\* A two-qubit gate, e.g. cx0_1: the name carries control and target.
CxGate(c, t, e) ==
  [name |-> <<"c", "x">> \o str(c) \o <<"_">> \o str(t),
   qubits |-> <<c, t>>, value |-> e]

\* The gates a record of a device with n qubits can hold at index g: the u2
\* gate of each qubit, the cx gate of each ordered pair of distinct qubits,
\* and one gate of another kind.
Gates(n, g) ==
  {U2Gate(qb, ErrorAt(g)) : qb \in 0..(n - 1)}
  \cup {U3Gate(0, ErrorAt(g))}
  \cup {CxGate(p[1], p[2], ErrorAt(g)) :
          p \in {x \in (0..(n - 1)) \X (0..(n - 1)) : x[1] # x[2]}}

(* ------------------------------ the table ----------------------------- *)

NoColumns ==
  [Qubit |-> <<>>, T1 |-> <<>>, T2 |-> <<>>, Frequency |-> <<>>,
   Readout |-> <<>>]

NoData ==
  [Qubit |-> <<>>, T1 |-> <<>>, T2 |-> <<>>, Frequency |-> <<>>,
   Readout |-> <<>>, U2 |-> <<>>, CNOT |-> <<>>, LastUpdate |-> <<>>]

\* out_csv_headings: the columns of the table.
Columns(d) ==
  <<d.Qubit, d.T1, d.T2, d.Frequency, d.Readout, d.U2, d.CNOT, d.LastUpdate>>

(* ------------------------------ outcomes ------------------------------ *)

NoResult == [kind |-> "none", val |-> 0, list |-> <<>>, msg |-> ""]
ReturnValue(v) == [kind |-> "return", val |-> v, list |-> <<>>, msg |-> ""]
ReturnList(l) == [kind |-> "return", val |-> 0, list |-> l, msg |-> ""]
ReturnNone == [kind |-> "None", val |-> 0, list |-> <<>>, msg |-> ""]
Raise(m) == [kind |-> "raise", val |-> 0, list |-> <<>>, msg |-> m]

NoCall == [fn |-> "none", ctl |-> 0, tgt |-> 0]

\* The messages of the two exceptions get_cx_error_rate raises itself.
DistinctMsg == "ctl and tgt must be distinct qubits."
NotConnectedMsg == "ctl and tgt are not connected via a cx/CNOT gate."

(* ------------------------------ extraction ---------------------------- *)

Init ==
  /\ \E n \in 1..MaxQubits : props_qubits = RawQubits(n)
  /\ props_gates = <<>>
  /\ pc = "qubits"
  /\ dict_props_qubit = NoColumns
  /\ dict_update_date = <<>>
  /\ list_u2_gates = <<>>
  /\ list_cx_gates = <<>>
  /\ output_data = NoData
  /\ df = NoData
  /\ err = ""
  /\ call = NoCall
  /\ result = NoResult

\* One iteration of the loop over the qubits.
QubitStep ==
  /\ pc = "qubits"
  /\ LET qi == Len(dict_props_qubit.Qubit)
         this_qubit == props_qubits[qi + 1]
         this_qubit_name == <<"Q">> \o str(qi)
         SlotOf(col) == CHOOSE i \in DOMAIN dict_props_device_qubit :
                          dict_props_device_qubit[i] = col
     IN /\ dict_props_qubit' =
             [col \in DOMAIN dict_props_qubit |->
                IF col = "Qubit"
                THEN Append(dict_props_qubit[col], this_qubit_name)
                ELSE Append(dict_props_qubit[col], this_qubit[SlotOf(col) + 1])]
        /\ dict_update_date' = Append(dict_update_date, last_update_date)
        /\ pc' = IF qi + 1 = Len(props_qubits) THEN "gates" ELSE "qubits"
  /\ UNCHANGED <<props_qubits, props_gates, list_u2_gates, list_cx_gates,
                 output_data, df, err, call, result>>

\* The bucket test with the + 1 dropped: a control equal to the number of
\* buckets is taken to have a list already.
NoListForOffByOne(ctl, cx_gates) == ctl > Len(cx_gates)

\* The test that decides whether a cx gate opens a new bucket.
NoListFor(ctl, cx_gates) == (ctl + 1) > Len(cx_gates)

\* One iteration of the loop over the gates; gate is the element it reads.
GateStep(gate) ==
  /\ pc = "gates"
  /\ props_gates' = Append(props_gates, gate)
  /\ LET this_gate_name == gate.name
         gate_error_value == gate.value
     IN IF find(this_gate_name, <<"u", "2">>) = 0
        THEN /\ list_u2_gates' = Append(list_u2_gates, gate_error_value)
             /\ UNCHANGED <<list_cx_gates, pc, err>>
        ELSE IF find(this_gate_name, <<"c", "x">>) = 0
        THEN LET ctl == gate.qubits[0 + 1]
                 dict_this_gate == (this_gate_name :> gate_error_value)
             IN IF NoListFor(ctl, list_cx_gates)
                THEN /\ list_cx_gates' =
                          Append(list_cx_gates, <<dict_this_gate>>)
                     /\ UNCHANGED <<list_u2_gates, pc, err>>
                ELSE IF ctl + 1 \in DOMAIN list_cx_gates
                THEN /\ list_cx_gates' =
                          [list_cx_gates EXCEPT
                             ![ctl + 1] = Append(@, dict_this_gate)]
                     /\ UNCHANGED <<list_u2_gates, pc, err>>
                ELSE /\ pc' = "raised"
                     /\ err' = "IndexError"
                     /\ UNCHANGED <<list_u2_gates, list_cx_gates>>
        ELSE UNCHANGED <<list_u2_gates, list_cx_gates, pc, err>>
  /\ UNCHANGED <<props_qubits, dict_props_qubit, dict_update_date,
                 output_data, df, call, result>>

\* The gate loop reads the next gate of the record.
ReadGate ==
  /\ pc = "gates"
  /\ Len(props_gates) < MaxGates
  /\ \E gate \in Gates(Len(props_qubits), Len(props_gates)) :
       /\ \A i \in DOMAIN props_gates : props_gates[i].name # gate.name
       /\ GateStep(gate)

\* The gate loop is over: the output dictionary is assembled and returned.
ReturnData ==
  /\ pc = "gates"
  /\ output_data' =
       [Qubit |-> dict_props_qubit.Qubit, T1 |-> dict_props_qubit.T1,
        T2 |-> dict_props_qubit.T2,
        Frequency |-> dict_props_qubit.Frequency,
        Readout |-> dict_props_qubit.Readout,
        U2 |-> list_u2_gates, CNOT |-> list_cx_gates,
        LastUpdate |-> dict_update_date]
  /\ pc' = "returned"
  /\ UNCHANGED <<props_qubits, props_gates, dict_props_qubit,
                 dict_update_date, list_u2_gates, list_cx_gates, df, err,
                 call, result>>

\* pd.DataFrame(dict_data, columns = ...): the columns must be equally long.
DataFrame ==
  /\ pc = "returned"
  /\ IF \A i, j \in 1..8 :
          Len(Columns(output_data)[i]) = Len(Columns(output_data)[j])
     THEN /\ df' = output_data
          /\ pc' = "frame"
          /\ UNCHANGED err
     ELSE /\ pc' = "raised"
          /\ err' = "ValueError"
          /\ UNCHANGED df
  /\ UNCHANGED <<props_qubits, props_gates, dict_props_qubit,
                 dict_update_date, list_u2_gates, list_cx_gates, output_data,
                 call, result>>

(* ------------------------------- queries ------------------------------ *)

\* df['CNOT error rate'][ctl] exists.
HasRow(d, ctl) == ctl + 1 \in DOMAIN d.CNOT

\* The one key of a single-entry dictionary.
KeyOf(d) == CHOOSE k \in DOMAIN d : TRUE

\* The loop of get_cx_connected_qubits over the list of dictionaries.
RECURSIVE ConnectedOf(_)
ConnectedOf(cx_data) ==
  IF cx_data = <<>> THEN <<>>
  ELSE <<(<<"Q">> \o split(KeyOf(Head(cx_data)), "_")[1 + 1])>>
       \o ConnectedOf(Tail(cx_data))

get_cx_connected_qubits(d, ctl) ==
  IF ~HasRow(d, ctl) THEN Raise("IndexError")
  ELSE LET cx_data == d.CNOT[ctl + 1]
       IN IF \E i \in DOMAIN cx_data :
                Len(split(KeyOf(cx_data[i]), "_")) < 2
          THEN Raise("IndexError")
          ELSE ReturnList(ConnectedOf(cx_data))

\* The scan of get_cx_error_rate over the row of the control qubit.
RECURSIVE ScanRow(_, _)
ScanRow(cx_data, gate_name) ==
  IF cx_data = <<>> THEN ReturnNone
  ELSE IF gate_name \in DOMAIN Head(cx_data)
       THEN ReturnValue(Head(cx_data)[gate_name])
       ELSE ScanRow(Tail(cx_data), gate_name)

\* get_cx_error_rate with its two sanity checks in the other order.
get_cx_error_rate_ConnectedFirst(d, ctl, tgt) ==
  LET tgt_name == <<"Q">> \o str(tgt)
      connected == get_cx_connected_qubits(d, 1)
  IN IF connected.kind = "raise" THEN connected
     ELSE IF \A i \in DOMAIN connected.list : connected.list[i] # tgt_name
     THEN Raise(NotConnectedMsg)
     ELSE IF ctl = tgt THEN Raise(DistinctMsg)
     ELSE LET gate_name == <<"c", "x">> \o str(ctl) \o <<"_">> \o str(tgt)
          IN IF ~HasRow(d, ctl) THEN Raise("IndexError")
             ELSE ScanRow(d.CNOT[ctl + 1], gate_name)

get_cx_error_rate(d, ctl, tgt) ==
  IF ctl = tgt THEN Raise(DistinctMsg)
  ELSE
    LET tgt_name == <<"Q">> \o str(tgt)
        connected == get_cx_connected_qubits(d, 1)
    IN IF connected.kind = "raise" THEN connected
       ELSE IF \A i \in DOMAIN connected.list : connected.list[i] # tgt_name
       THEN Raise(NotConnectedMsg)
       ELSE LET gate_name == <<"c", "x">> \o str(ctl) \o <<"_">> \o str(tgt)
            IN IF ~HasRow(d, ctl) THEN Raise("IndexError")
               ELSE ScanRow(d.CNOT[ctl + 1], gate_name)

\* The table a query is given: the returned dictionary or the DataFrame.
Table == IF pc = "frame" THEN df ELSE output_data

QubitIds == 0..MaxQubits

CallConnected ==
  /\ pc \in {"returned", "frame"}
  /\ call = NoCall
  /\ \E ctl \in QubitIds :
       /\ call' = [fn |-> "get_cx_connected_qubits", ctl |-> ctl, tgt |-> 0]
       /\ result' = get_cx_connected_qubits(Table, ctl)
  /\ UNCHANGED <<props_qubits, props_gates, pc, dict_props_qubit,
                 dict_update_date, list_u2_gates, list_cx_gates, output_data,
                 df, err>>

CallErrorRate ==
  /\ pc \in {"returned", "frame"}
  /\ call = NoCall
  /\ \E ctl \in QubitIds, tgt \in QubitIds :
       /\ call' = [fn |-> "get_cx_error_rate", ctl |-> ctl, tgt |-> tgt]
       /\ result' = get_cx_error_rate(Table, ctl, tgt)
  /\ UNCHANGED <<props_qubits, props_gates, pc, dict_props_qubit,
                 dict_update_date, list_u2_gates, list_cx_gates, output_data,
                 df, err>>

\* The caller takes the outcome of the call; the table is as it was.
EndCall ==
  /\ call # NoCall
  /\ call' = NoCall
  /\ result' = NoResult
  /\ UNCHANGED <<props_qubits, props_gates, pc, dict_props_qubit,
                 dict_update_date, list_u2_gates, list_cx_gates, output_data,
                 df, err>>

Next ==
  \/ QubitStep
  \/ ReadGate
  \/ ReturnData
  \/ DataFrame
  \/ CallConnected
  \/ CallErrorRate
  \/ EndCall

Spec == Init /\ [][Next]_vars

(* ------------------------- claims: vocabulary ------------------------- *)

\* The extraction has returned its table.
Extracted == pc \in {"returned", "frame"}

\* The number of qubits of the raw record.
NQubits == Len(props_qubits)

\* The indices of the two-qubit gates of a gate list.
CxIndices(gates) ==
  {i \in DOMAIN gates : find(gates[i].name, <<"c", "x">>) = 0}

\* The two-qubit gates of the record whose control is c, as single-entry
\* mappings, in the order of the record.
RECURSIVE CxOfControl(_, _)
CxOfControl(gates, c) ==
  IF gates = <<>> THEN <<>>
  ELSE (IF find(Head(gates).name, <<"c", "x">>) = 0
           /\ Head(gates).qubits[1] = c
        THEN <<(Head(gates).name :> Head(gates).value)>>
        ELSE <<>>)
       \o CxOfControl(Tail(gates), c)

InSeq(x, sq) == \E i \in DOMAIN sq : sq[i] = x

(* ------------------------------- claims ------------------------------- *)

\* C1: round trip.  For every two-qubit gate cx<c>_<t> with error e of the
\* record, get_cx_error_rate(table, c, t) returns e and 'Q'+t is a member
\* of get_cx_connected_qubits(table, c), for every control c.
C1_RoundTrip ==
  \A i \in CxIndices(props_gates) :
    LET c == props_gates[i].qubits[1]
        t == props_gates[i].qubits[2]
    IN /\ (call = [fn |-> "get_cx_error_rate", ctl |-> c, tgt |-> t])
            => result = ReturnValue(props_gates[i].value)
       /\ (call = [fn |-> "get_cx_connected_qubits", ctl |-> c, tgt |-> 0])
            => /\ result.kind = "return"
               /\ InSeq(<<"Q">> \o str(t), result.list)

\* C2: when 'Q'+t is not in get_cx_connected_qubits(table, c) and c # t,
\* get_cx_error_rate(table, c, t) fails with the not-connected error.
C2_NotConnectedFails ==
  (/\ call.fn = "get_cx_error_rate"
   /\ call.ctl # call.tgt
   /\ get_cx_connected_qubits(Table, call.ctl).kind = "return"
   /\ ~InSeq(<<"Q">> \o str(call.tgt),
             get_cx_connected_qubits(Table, call.ctl).list))
  => result = Raise(NotConnectedMsg)

\* C3: get_cx_error_rate(table, c, c) fails with the distinct-qubits error
\* for every qubit id c, whatever the table holds: the check comes before
\* every read of the table.
C3_DistinctBeforeReads ==
  (call.fn = "get_cx_error_rate" /\ call.ctl = call.tgt)
  => result = Raise(DistinctMsg)

\* C3 witness: the call was made with c = c on a table that has no row 1 and
\* no row c, where every read of the table would fail, and it ended with the
\* distinct-qubits error.
C3_Witness ==
  /\ call.fn = "get_cx_error_rate"
  /\ call.ctl = call.tgt
  /\ ~HasRow(Table, call.ctl)
  /\ ~HasRow(Table, 1)
  /\ result = Raise(DistinctMsg)

\* C4: the table produced by extraction has exactly N rows: every column
\* has as many entries as the record has qubits.
C4_RowCount ==
  Extracted =>
    \A i \in 1..8 : Len(Columns(output_data)[i]) = NQubits

\* C5: row q of 'CNOT error rate' holds exactly the two-qubit gates of the
\* record whose control is q, with their error values, in the order of the
\* record (a row the table lacks counts as empty).
C5_BucketPerControl ==
  Extracted =>
    \A qb \in 0..(NQubits - 1) :
      (IF HasRow(output_data, qb) THEN output_data.CNOT[qb + 1] ELSE <<>>)
        = CxOfControl(props_gates, qb)

\* C6: for a qubit id c in 0..N-1 that is the control of no two-qubit gate
\* of the record, get_cx_connected_qubits(table, c) returns the empty
\* sequence.
C6_NoGateEmpty ==
  (/\ call.fn = "get_cx_connected_qubits"
   /\ call.ctl \in 0..(NQubits - 1)
   /\ CxOfControl(props_gates, call.ctl) = <<>>)
  => result = ReturnList(<<>>)

\* C7: row q of 'Single-qubit U2 error rate' is the error value of the gate
\* u2_q, in whatever order the u2 gates stand in the record.
C7_U2PerQubit ==
  Extracted =>
    \A qb \in 0..(NQubits - 1) :
      \A i \in DOMAIN props_gates :
        (/\ props_gates[i].name = <<"u", "2", "_">> \o str(qb)
         /\ qb + 1 \in DOMAIN output_data.U2)
        => output_data.U2[qb + 1] = props_gates[i].value

\* C8: a call get_cx_error_rate(table, ctl, tgt) either returns the value
\* stored under 'cx<ctl>_<tgt>' in row ctl or fails with an error; it never
\* completes without a result.
C8_ValueOrError ==
  call.fn = "get_cx_error_rate" =>
    \/ result.kind = "raise"
    \/ /\ result.kind = "return"
       /\ HasRow(Table, call.ctl)
       /\ \E i \in DOMAIN Table.CNOT[call.ctl + 1] :
            LET d == Table.CNOT[call.ctl + 1][i]
                gate_name == <<"c", "x">> \o str(call.ctl) \o <<"_">>
                               \o str(call.tgt)
            IN gate_name \in DOMAIN d /\ d[gate_name] = result.val

\* C9: an iteration of the gate loop appends a new bucket only when the
\* control of the gate it reads equals the number of buckets there are.
C9_AppendOnlyNextIndex ==
  [][(pc = "gates" /\ Len(list_cx_gates') = Len(list_cx_gates) + 1)
       => props_gates'[Len(props_gates')].qubits[1] = Len(list_cx_gates)]_vars

\* C10: after any prefix of the gate list the number of buckets is at most
\* the number of two-qubit gates read and at most 1 + the largest control
\* read, every bucket is non-empty, and the loop has not failed with an
\* index out of range on list_cx_gates.
C10_BucketBounds ==
  LET cxs == CxIndices(props_gates)
  IN /\ err # "IndexError"
     /\ Len(list_cx_gates) <= Cardinality(cxs)
     /\ \A i \in cxs :
          (\A j \in cxs :
             props_gates[j].qubits[1] <= props_gates[i].qubits[1])
          => Len(list_cx_gates) <= 1 + props_gates[i].qubits[1]
     /\ \A b \in DOMAIN list_cx_gates : list_cx_gates[b] # <<>>

\* C10 witness: the loop has taken the append-to-existing-bucket branch for
\* a control below the highest bucket, and has opened more than one bucket.
C10_Witness ==
  /\ pc = "gates"
  /\ Len(list_cx_gates) >= 2
  /\ Len(list_cx_gates[1]) >= 2

====
